---- MODULE Spec2Model ----
(***************************************************************************)
(* eventful-call-trace: src/lib/stitch-receipt-logs-into-calltracer.ts     *)
(*                                                                         *)
(* deriveEventPathsRevertAware replays a flat opcode trace and derives,    *)
(* for every LOG step, the path of the call frame that emitted it;         *)
(* annotateCallPaths gives every node of a callTracer tree its path;       *)
(* stitchLogsIntoCallTrace pairs the derived events with the receipt logs  *)
(* and attaches each log to the node at the event's path;                  *)
(* enrichTraceWithCallAndEventDetails gives every call its method name and *)
(* every attached log its parsed event.                                    *)
(*                                                                         *)
(* JavaScript arrays are 0-based and TLA+ sequences 1-based: an index the  *)
(* code stores (parentIdx, evIdx, li, a child index) keeps its 0-based     *)
(* value here and is used as seq[idx + 1].  An optional value (T | null,   *)
(* T | undefined) is a sequence of length 0 or 1.                          *)
(***************************************************************************)
EXTENDS Integers, Sequences, FiniteSets, TLC

VARIABLES
    pc,        \* position of the run: "derive", "derived", "stitch", "attach", ...
    steps,     \* deriveEventPathsRevertAware: the steps consumed so far (steps[0..i-1])
    frames,    \* deriveEventPathsRevertAware: the frame stack
    prevDepth, \* deriveEventPathsRevertAware: depth of the previous step
    pending,   \* deriveEventPathsRevertAware: the pending reservation, or null
    events,    \* deriveEventPathsRevertAware: the provisional event list
    out,       \* deriveEventPathsRevertAware: the finalized list it returns
    trail,     \* per step: the frame pushed, the frames popped, the top frame,
               \* the reservation pending after the step
    callsFromCallTracer, \* stitchLogsIntoCallTrace: the root reference it is given
    nodes,               \* the call nodes (objects) of the tree, by identity
    structLogs,          \* stitchLogsIntoCallTrace: the step trace it is given
    receipt,             \* stitchLogsIntoCallTrace: receipt.logs
    suppressWarnings,    \* stitchLogsIntoCallTrace: the lenient mode
    sevents,             \* stitchLogsIntoCallTrace: events (the derived list)
    pathMap,             \* stitchLogsIntoCallTrace: path key -> node
    visits,              \* annotateCallPaths: the nodes in the order of their visits
    warnings,            \* stitchLogsIntoCallTrace: the warning list
    i,                   \* stitchLogsIntoCallTrace: index into events
    li,                  \* stitchLogsIntoCallTrace: index into receipt.logs
    result,              \* stitchLogsIntoCallTrace: what it returned or threw
    enriched,  \* enrichTraceWithCallAndEventDetails: the root reference it is given
    callNodes, \* the call nodes (objects) of the tree it is given, by identity
    selectors, \* enrichTraceWithCallAndEventDetails: selector -> method name
    topics,    \* enrichTraceWithCallAndEventDetails: topic -> name and parser
    todo       \* enrichCall: the calls still to enrich, in the order of the recursion

dvars == <<steps, frames, prevDepth, pending, events, out, trail>>

svars == <<callsFromCallTracer, nodes, structLogs, receipt, suppressWarnings,
           sevents, pathMap, visits, warnings, i, li, result>>

evars == <<enriched, callNodes, selectors, topics, todo>>

----------------------------------------------------------------------------
(* Bounds of the step traces.                                              *)

MaxSteps == 4

\* Call depths of the generated traces: root, child, grandchild.  The depth
\* of a step is 1-based; any depth may follow any other.
Depths == 1..3

\* Opcode mnemonics of the generated traces: one CALL/CREATE-family opcode,
\* one LOG opcode, REVERT, and one opcode the deriver ignores.
StepOps == {"CALL", "LOG1", "REVERT", "STOP"}

----------------------------------------------------------------------------
(* deriveEventPathsRevertAware                                             *)

ENTER == {"CALL", "STATICCALL", "DELEGATECALL", "CALLCODE", "CREATE", "CREATE2"}

\* op.startsWith("LOG"), on the mnemonics of the EVM
StartsWithLOG(op) == op \in {"LOG0", "LOG1", "LOG2", "LOG3", "LOG4"}

\* the virtual root frame at path []
RootFrame == [path |-> <<>>, nextChild |-> 0, logsIdx |-> <<>>, reverted |-> FALSE]

NewFrame(newPath) ==
    [path |-> newPath, nextChild |-> 0, logsIdx |-> <<>>, reverted |-> FALSE]

\* the locals of the function before the loop; prevDepth is steps[0].depth
\* when there is a step and 1 otherwise.  pushed and popped are no locals of
\* the code: they record, for the iteration under way, the path of the frame
\* it pushed (if any) and the paths of the frames it popped, in pop order.
DeriveStart(firstDepth) ==
    [frames |-> <<RootFrame>>, prevDepth |-> firstDepth, pending |-> <<>>,
     events |-> <<>>, pushed |-> <<>>, popped |-> <<>>]

\* ResolvePending with a bug: a reservation that is not confirmed gives its
\* child index back to the parent frame
ResolvePendingReuse(st, d) ==
    IF st.pending # <<>>
    THEN LET parent  == st.pending[1].parentIdx
             idx     == st.pending[1].reservedIdx
             newPath == Append(st.frames[parent + 1].path, idx)
         IN  IF d > st.prevDepth
             THEN [st EXCEPT !.frames  = Append(st.frames, NewFrame(newPath)),
                             !.pushed  = <<newPath>>,
                             !.pending = <<>>]
             ELSE [st EXCEPT !.frames[parent + 1].nextChild = idx,
                             !.pending = <<>>]
    ELSE st

\* ResolvePending with a bug: the new frame's path is the reserved index alone
ResolvePendingRootPath(st, d) ==
    IF st.pending # <<>>
    THEN LET idx     == st.pending[1].reservedIdx
             newPath == <<idx>>
         IN  IF d > st.prevDepth
             THEN [st EXCEPT !.frames  = Append(st.frames, NewFrame(newPath)),
                             !.pushed  = <<newPath>>,
                             !.pending = <<>>]
             ELSE [st EXCEPT !.pending = <<>>]
    ELSE st

\* ResolvePending with a bug: a step at the depth of the previous step
\* confirms the reservation too
ResolvePendingSameDepth(st, d) ==
    IF st.pending # <<>>
    THEN LET parent  == st.pending[1].parentIdx
             idx     == st.pending[1].reservedIdx
             newPath == Append(st.frames[parent + 1].path, idx)
         IN  IF d >= st.prevDepth
             THEN [st EXCEPT !.frames  = Append(st.frames, NewFrame(newPath)),
                             !.pushed  = <<newPath>>,
                             !.pending = <<>>]
             ELSE [st EXCEPT !.pending = <<>>]
    ELSE st

\* resolve the pending reservation of the previous step
ResolvePending(st, d) ==
    IF st.pending # <<>>
    THEN LET parent  == st.pending[1].parentIdx
             idx     == st.pending[1].reservedIdx
             newPath == Append(st.frames[parent + 1].path, idx)
         IN  IF d > st.prevDepth
             THEN [st EXCEPT !.frames  = Append(st.frames, NewFrame(newPath)),
                             !.pushed  = <<newPath>>,
                             !.pending = <<>>]
             ELSE [st EXCEPT !.pending = <<>>]
    ELSE st

\* for (const idx of f.logsIdx) events[idx].dropped = true
DropLogs(evs, logsIdx) ==
    [k \in DOMAIN evs |->
        IF \E n \in DOMAIN logsIdx : logsIdx[n] + 1 = k
        THEN [evs[k] EXCEPT !.dropped = TRUE]
        ELSE evs[k]]

\* PopFrames with a bug: the records of every popped frame are dropped,
\* reverted or not
RECURSIVE PopFramesDropAlways(_, _)
PopFramesDropAlways(st, d) ==
    IF Len(st.frames) - 1 > d - 1
    THEN LET f    == st.frames[Len(st.frames)]
             rest == SubSeq(st.frames, 1, Len(st.frames) - 1)
         IN  PopFramesDropAlways([st EXCEPT
                 !.frames = rest,
                 !.popped = Append(st.popped, f.path),
                 !.events = DropLogs(st.events, f.logsIdx)], d)
    ELSE st

\* PopFrames with a bug: a frame popped without REVERT hands its log indices
\* to its parent, so that a revert of the parent drops them too
RECURSIVE PopFramesHandLogsToParent(_, _)
PopFramesHandLogsToParent(st, d) ==
    IF Len(st.frames) - 1 > d - 1
    THEN LET f    == st.frames[Len(st.frames)]
             rest == SubSeq(st.frames, 1, Len(st.frames) - 1)
             kept == IF f.reverted THEN rest
                     ELSE [rest EXCEPT ![Len(rest)].logsIdx = @ \o f.logsIdx]
         IN  PopFramesHandLogsToParent([st EXCEPT
                 !.frames = kept,
                 !.popped = Append(st.popped, f.path),
                 !.events = IF f.reverted THEN DropLogs(st.events, f.logsIdx)
                                          ELSE st.events], d)
    ELSE st

\* PopFrames with a bug: the loop stops one frame early
RECURSIVE PopFramesStopEarly(_, _)
PopFramesStopEarly(st, d) ==
    IF Len(st.frames) - 1 > d
    THEN LET f    == st.frames[Len(st.frames)]
             rest == SubSeq(st.frames, 1, Len(st.frames) - 1)
         IN  PopFramesStopEarly([st EXCEPT
                 !.frames = rest,
                 !.popped = Append(st.popped, f.path),
                 !.events = IF f.reverted THEN DropLogs(st.events, f.logsIdx)
                                          ELSE st.events], d)
    ELSE st

\* while (frames.length - 1 > d - 1) { f = frames.pop(); ... }
RECURSIVE PopFrames(_, _)
PopFrames(st, d) ==
    IF Len(st.frames) - 1 > d - 1
    THEN LET f    == st.frames[Len(st.frames)]
             rest == SubSeq(st.frames, 1, Len(st.frames) - 1)
         IN  PopFrames([st EXCEPT
                 !.frames = rest,
                 !.popped = Append(st.popped, f.path),
                 !.events = IF f.reverted THEN DropLogs(st.events, f.logsIdx)
                                          ELSE st.events], d)
    ELSE st

\* Reserve with a bug: the parent's child counter is not incremented
ReserveNoIncrement(st, op) ==
    IF op \in ENTER
    THEN LET parentIdx == Len(st.frames) - 1
             idx       == st.frames[parentIdx + 1].nextChild
         IN  [st EXCEPT !.pending = <<[parentIdx |-> parentIdx, reservedIdx |-> idx]>>]
    ELSE st

\* if (ENTER.has(op)): reserve a child slot of the top frame
Reserve(st, op) ==
    IF op \in ENTER
    THEN LET parentIdx == Len(st.frames) - 1
             idx       == st.frames[parentIdx + 1].nextChild
         IN  [st EXCEPT !.frames[parentIdx + 1].nextChild = idx + 1,
                        !.pending = <<[parentIdx |-> parentIdx, reservedIdx |-> idx]>>]
    ELSE st

\* LogCapture with a bug: the record takes its index in the event list as pc
LogCaptureIndexAsPc(st, s) ==
    IF StartsWithLOG(s.op)
    THEN LET top   == Len(st.frames)
             cur   == st.frames[top]
             evIdx == Len(st.events)
         IN  [st EXCEPT !.frames[top].logsIdx = Append(cur.logsIdx, evIdx),
                        !.events = Append(st.events,
                            [op |-> s.op, pc |-> evIdx, depth |-> s.depth,
                             callPath |-> cur.path, dropped |-> FALSE])]
    ELSE st

\* if (op.startsWith("LOG")): a provisional event record in the top frame
LogCapture(st, s) ==
    IF StartsWithLOG(s.op)
    THEN LET top   == Len(st.frames)
             cur   == st.frames[top]
             evIdx == Len(st.events)
         IN  [st EXCEPT !.frames[top].logsIdx = Append(cur.logsIdx, evIdx),
                        !.events = Append(st.events,
                            [op |-> s.op, pc |-> s.pc, depth |-> s.depth,
                             callPath |-> cur.path, dropped |-> FALSE])]
    ELSE st

\* a revert marking that marks the bottom frame instead of the top frame
RevertMarkBottom(st, op) ==
    IF op = "REVERT"
    THEN [st EXCEPT !.frames[1].reverted = TRUE]
    ELSE st

\* if (op === "REVERT"): mark the top frame
RevertMark(st, op) ==
    IF op = "REVERT"
    THEN [st EXCEPT !.frames[Len(st.frames)].reverted = TRUE]
    ELSE st

\* one iteration of the loop over the steps
LoopBody(st, s) ==
    LET a == ResolvePending([st EXCEPT !.pushed = <<>>, !.popped = <<>>], s.depth)
        b == PopFrames(a, s.depth)
        c == Reserve(b, s.op)
        e == LogCapture(c, s)
        f == RevertMark(e, s.op)
    IN  [f EXCEPT !.prevDepth = s.depth]

\* callPath.join("/"): the decimal numerals of the indices, "/" between them.
\* A key is the sequence of its tokens (one per numeral and per separator).
RECURSIVE Join(_)
Join(path) ==
    IF Len(path) = 0 THEN <<>>
    ELSE IF Len(path) = 1 THEN <<ToString(path[1])>>
    ELSE <<ToString(path[1]), "/">> \o Join(Tail(path))

\* counters.get(key) ?? 0
CounterGet(counters, key) ==
    IF key \in DOMAIN counters THEN counters[key] ELSE 0

\* Map.prototype.set: a new entry, or the value of an existing key replaced
MapSet(map, key, v) ==
    [k \in DOMAIN map \cup {key} |-> IF k = key THEN v ELSE map[k]]

\* Finalize with a bug: one counter for all the paths
RECURSIVE FinalizeOneCounter(_, _, _, _)
FinalizeOneCounter(evs, k, counters, acc) ==
    IF k > Len(evs) THEN acc
    ELSE LET e == evs[k] IN
         IF e.dropped THEN FinalizeOneCounter(evs, k + 1, counters, acc)
         ELSE FinalizeOneCounter(evs, k + 1, counters,
                  Append(acc, [op |-> e.op, pc |-> e.pc, depth |-> e.depth,
                               callPath |-> e.callPath,
                               eventIdxInCall |-> Len(acc)]))

\* assign per-call event indices and drop reverted ones: the loop over events,
\* from record k on, with the counters and the output built so far
RECURSIVE Finalize(_, _, _, _)
Finalize(evs, k, counters, acc) ==
    IF k > Len(evs) THEN acc
    ELSE LET e == evs[k] IN
         IF e.dropped THEN Finalize(evs, k + 1, counters, acc)
         ELSE LET key == Join(e.callPath)
                  n   == CounterGet(counters, key)
              IN  Finalize(evs, k + 1, MapSet(counters, key, n + 1),
                      Append(acc, [op |-> e.op, pc |-> e.pc, depth |-> e.depth,
                                   callPath |-> e.callPath, eventIdxInCall |-> n]))

\* the loop over all steps, from step k on
RECURSIVE RunSteps(_, _, _)
RunSteps(st, stepList, k) ==
    IF k > Len(stepList) THEN st
    ELSE RunSteps(LoopBody(st, stepList[k]), stepList, k + 1)

\* the whole function, as stitchLogsIntoCallTrace calls it
deriveEventPathsRevertAware(stepList) ==
    LET first == IF Len(stepList) > 0 THEN stepList[1].depth ELSE 1
        st    == RunSteps(DeriveStart(first), stepList, 1)
    IN  Finalize(st.events, 1, <<>>, <<>>)

----------------------------------------------------------------------------
(* annotateCallPaths, expectedLogAddressForNode                            *)
(*                                                                         *)
(* A call node is an object: nodes maps its identity to its fields.  calls *)
(* holds the identities of the children, in order; the optional fields     *)
(* (type is always given here; from, to, calls, logs, _path) are sequences *)
(* of length 0 (undefined) or 1.  A string the code compares letter by     *)
(* letter (an address) is the sequence of its characters.                  *)

\* node.calls ?? []
Kids(ns, id) == IF ns[id].calls = <<>> THEN <<>> ELSE ns[id].calls[1]

\* visit(node, prefix) and its loop over the children from child k on;
\* acc holds the nodes and the map as mutated so far, and the nodes visited
RECURSIVE Visit(_, _, _)
RECURSIVE VisitKids(_, _, _, _)

\* VisitKids with a bug: the children are numbered from 1
RECURSIVE VisitKidsFromOne(_, _, _, _)
VisitKidsFromOne(acc, kids, prefix, k) ==
    IF k < Len(kids)
    THEN VisitKidsFromOne(Visit(acc, kids[k + 1], Append(prefix, k + 1)),
                          kids, prefix, k + 1)
    ELSE acc

\* visit(node, prefix): set the path, index the node, visit the children
Visit(acc, id, prefix) ==
    LET marked == [nodes   |-> [acc.nodes EXCEPT ![id]._path = <<prefix>>],
                   pathMap |-> MapSet(acc.pathMap, Join(prefix), id),
                   visits  |-> Append(acc.visits, id)]
    IN  VisitKids(marked, Kids(marked.nodes, id), prefix, 0)

\* (node.calls ?? []).forEach((child, i) => visit(child, [...prefix, i]))
VisitKids(acc, kids, prefix, k) ==
    IF k < Len(kids)
    THEN VisitKids(Visit(acc, kids[k + 1], Append(prefix, k)), kids, prefix, k + 1)
    ELSE acc

\* the loop over the top-level nodes of an array root, from root k on
RECURSIVE VisitRoots(_, _, _)
VisitRoots(acc, roots, k) ==
    IF k < Len(roots)
    THEN VisitRoots(Visit(acc, roots[k + 1], <<k>>), roots, k + 1)
    ELSE acc

\* annotateCallPaths(root): the nodes with their _path set, and the map
annotateCallPaths(root, ns) ==
    LET acc == [nodes |-> ns, pathMap |-> <<>>, visits |-> <<>>]
    IN  IF root.isArray
        THEN VisitRoots(acc, root.ids, 0)
        ELSE Visit(acc, root.ids[1], <<>>)

\* String.prototype.toLowerCase, on the letters of the addresses used here
LowerChar(c) ==
    CASE c = "A" -> "a"
      [] c = "B" -> "b"
      [] c = "C" -> "c"
      [] c = "D" -> "d"
      [] c = "E" -> "e"
      [] c = "F" -> "f"
      [] OTHER   -> c

toLowerCase(str) == [n \in DOMAIN str |-> LowerChar(str[n])]

\* x?.toLowerCase()
OptLower(opt) == IF opt = <<>> THEN <<>> ELSE <<toLowerCase(opt[1])>>

\* expectedLogAddressForNode with a bug: the destination address, whatever
\* the kind of the call
expectedLogAddressAlwaysTo(n) == OptLower(n.to)

\* expectedLogAddressForNode(n), for a node that exists
expectedLogAddressForNode(n) ==
    IF n.type = "DELEGATECALL" \/ n.type = "CALLCODE"
    THEN OptLower(n.from)
    ELSE OptLower(n.to)

\* the truthiness of an optional string: defined and not empty
Truthy(opt) == opt # <<>> /\ opt[1] # <<>>

----------------------------------------------------------------------------
(* enrichTraceWithCallAndEventDetails.  A string (an input payload, a      *)
(* selector, a method name) is the sequence of its characters.             *)

\* the label of a call whose input holds no selector
Unknown == <<"u", "n", "k", "n", "o", "w", "n">>

\* String.prototype.slice(0, n) and substring(0, n)
Prefix(str, n) == SubSeq(str, 1, IF Len(str) < n THEN Len(str) ELSE n)

\* getMethodName(input), input a string
getMethodName(input) ==
    IF input = <<>> \/ Len(input) < 10 THEN Unknown
    ELSE LET selector == Prefix(input, 10)
         IN  IF selector \in DOMAIN selectors THEN selectors[selector]
             ELSE selector

\* call.input ? getMethodName(call.input) : call.input?.substring(0, 10)
\* (input is undefined, or a string; the result is undefined, or a string)
MethodOf(input) ==
    IF Truthy(input) THEN <<getMethodName(input[1])>>
    ELSE IF input = <<>> THEN <<>>
    ELSE <<Prefix(input[1], 10)>>

\* details.parser(log): what the caller's parser makes of the log
ParserResult(log) == [decodedFrom |-> log.data]

\* parseEvent(log)
parseEvent(log) ==
    LET code == IF log.topics = <<>> THEN <<>> ELSE <<log.topics[1]>>
    IN  IF code # <<>> /\ code[1] \in DOMAIN topics /\ topics[code[1]].parser
        THEN [name |-> <<topics[code[1]].name>>, params |-> <<ParserResult(log)>>,
              topics |-> <<>>, data |-> <<>>]
        ELSE [name |-> <<>>, params |-> <<>>,
              topics |-> <<log.topics>>, data |-> <<log.data>>]

\* call.logs.map((log) => ({ ...log, parsed: parseEvent(log) }))
ParsedLogs(logs) ==
    [n \in DOMAIN logs |->
        [topics |-> logs[n].topics, data |-> logs[n].data,
         parsed |-> <<parseEvent(logs[n])>>]]

\* The input payloads: none, the empty string, "0x", one character short of
\* a selector, a selector the table knows, alone and followed by arguments,
\* and a selector it does not know.
SelectorKnown == <<"0", "x", "a", "9", "0", "5", "9", "c", "b", "b">>
SelectorOther == <<"0", "x", "7", "0", "a", "0", "8", "2", "3", "1">>

Inputs ==
    { <<>>,
      <<(<<>>)>>,
      << <<"0", "x">> >>,
      << Prefix(SelectorKnown, 9) >>,
      << SelectorKnown >>,
      << SelectorKnown \o <<"0", "1">> >>,
      << SelectorOther >> }

\* The selector tables: the empty one, and one that names SelectorKnown.
SelectorTables ==
    { <<>>,
      [sel \in {SelectorKnown} |-> <<"t", "r", "a", "n", "s", "f", "e", "r">>] }

\* The topic tables: one topic with its name and its parser.
TopicTables ==
    { [code \in {"T1"} |-> [name |-> "Transfer", parser |-> TRUE]] }

\* The logs of a call: none, the empty list, a log of the topic of the
\* table followed by a log of another topic and a log without topics.
LogLists ==
    { <<>>,
      <<(<<>>)>>,
      << << [topics |-> <<"T1", "T9">>, data |-> "d1", parsed |-> <<>>],
            [topics |-> <<"T2">>, data |-> "d2", parsed |-> <<>>],
            [topics |-> <<>>, data |-> "d3", parsed |-> <<>>] >> >> }

\* the variables of the enricher while another function runs
EnrichIdle ==
    /\ enriched = [isArray |-> FALSE, ids |-> <<1>>]
    /\ callNodes = <<>>
    /\ selectors = <<>>
    /\ topics = <<>>
    /\ todo = <<>>

----------------------------------------------------------------------------
(* The inputs of stitchLogsIntoCallTrace.                                  *)

\* Bound of the receipts: the number of receipt logs.
MaxLogs == 3

\* a trace from its (opcode, depth) pairs; the steps are numbered by pc
Trace(pairs) ==
    [n \in DOMAIN pairs |-> [op |-> pairs[n][1], depth |-> pairs[n][2], pc |-> n - 1]]

\* The step traces given to the stitcher: no event, one event in the root,
\* in a child, in a later child, in a grandchild, several events of one
\* frame and of different frames, a reverted child, calls without an event.
StitchTraces ==
    { Trace(<<>>),
      Trace(<< <<"LOG1", 1>> >>),
      Trace(<< <<"LOG1", 1>>, <<"LOG1", 1>> >>),
      Trace(<< <<"CALL", 1>>, <<"LOG1", 2>> >>),
      Trace(<< <<"CALL", 1>>, <<"LOG1", 2>>, <<"REVERT", 2>>, <<"STOP", 1>> >>),
      Trace(<< <<"CALL", 1>>, <<"LOG1", 2>>, <<"CALL", 1>>, <<"LOG1", 2>> >>),
      Trace(<< <<"LOG1", 1>>, <<"CALL", 1>>, <<"LOG1", 2>>, <<"LOG1", 1>> >>),
      Trace(<< <<"CALL", 1>>, <<"STOP", 1>>, <<"CALL", 1>>, <<"LOG1", 2>> >>),
      Trace(<< <<"CALL", 1>>, <<"CALL", 2>>, <<"LOG1", 3>>, <<"LOG1", 2>> >>),
      Trace(<< <<"CALL", 1>>, <<"STOP", 2>>, <<"REVERT", 2>>, <<"CALL", 1>> >>),
      Trace(<< <<"CALL", 1>>, <<"CALL", 2>>, <<"REVERT", 3>>, <<"STOP", 1>> >>),
      Trace(<< <<"STOP", 1>>, <<"CALL", 1>>, <<"STOP", 2>>, <<"STOP", 1>> >>) }

\* Addresses: the caller's, in lower case, and the target's, in mixed case.
AddrCaller == <<"0", "x", "c", "d">>
AddrTarget == <<"0", "x", "A", "b">>

\* What a call node says of its call: its kind and its two addresses
\* (a failed CREATE has no destination address).
KindCall     == [type |-> "CALL",         from |-> <<AddrCaller>>, to |-> <<AddrTarget>>]
KindDelegate == [type |-> "DELEGATECALL", from |-> <<AddrCaller>>, to |-> <<AddrTarget>>]
KindCallCode == [type |-> "CALLCODE",     from |-> <<AddrCaller>>, to |-> <<AddrTarget>>]
KindCreate   == [type |-> "CREATE",       from |-> <<AddrCaller>>, to |-> <<>>]
\* a CALL whose destination is spelled as the receipt spells it
KindCallSame == [type |-> "CALL", from |-> <<AddrCaller>>, to |-> << <<"0", "x", "a", "B">> >>]

\* The kinds of the nodes 1, 2, 3 of a tree: every node takes every kind,
\* and the nodes of one tree differ, or all of them are plain CALLs.
KindAssignments ==
    { <<KindCall, KindCall, KindCallSame>>,
      <<KindCall, KindDelegate, KindCallCode>>,
      <<KindDelegate, KindCallCode, KindCreate>>,
      <<KindCallCode, KindCreate, KindCall>>,
      <<KindCreate, KindCall, KindDelegate>> }

\* The shapes of the call trees: a lone root; a root with one child; a root
\* with two children; a root, its child and its grandchild; an array of two
\* top-level calls, the first with a child.  calls is undefined, or the array
\* of the children.
TreeShapes ==
    { [root  |-> [isArray |-> FALSE, ids |-> <<1>>],
       calls |-> <<(<<>>)>>],
      [root  |-> [isArray |-> FALSE, ids |-> <<1>>],
       calls |-> << <<(<<2>>)>>, <<>> >>],
      [root  |-> [isArray |-> FALSE, ids |-> <<1>>],
       calls |-> << <<(<<2, 3>>)>>, <<>>, <<(<<>>)>> >>],
      [root  |-> [isArray |-> FALSE, ids |-> <<1>>],
       calls |-> << <<(<<2>>)>>, <<(<<3>>)>>, <<>> >>],
      [root  |-> [isArray |-> TRUE, ids |-> <<1, 2>>],
       calls |-> << <<(<<3>>)>>, <<>>, <<>> >>] }

\* a call node as the callTracer gives it: no logs, no _path yet
CallNode(kind, calls) ==
    [type |-> kind.type, from |-> kind.from, to |-> kind.to, calls |-> calls,
     logs |-> <<>>, _path |-> <<>>]

Trees ==
    UNION { { [root  |-> sh.root,
               nodes |-> [id \in DOMAIN sh.calls |-> CallNode(kind[id], sh.calls[id])]]
              : kind \in KindAssignments }
            : sh \in TreeShapes }

\* The addresses of the receipt logs: the target's in another letter case,
\* the caller's, and the empty string.
LogAddrs == { <<"0", "x", "a", "B">>, AddrCaller, <<>> }

\* The receipts: up to MaxLogs logs, each with its position as logIndex.
Receipts ==
    UNION { { [n \in 1..len |-> [address |-> addr[n], logIndex |-> n - 1]]
              : addr \in [1..len -> LogAddrs] }
            : len \in 0..MaxLogs }

\* the variables of the stitcher while the deriver runs on its own
StitchIdle ==
    /\ callsFromCallTracer = [isArray |-> FALSE, ids |-> <<1>>]
    /\ nodes = <<CallNode([type |-> "CALL", from |-> <<>>, to |-> <<>>], <<>>)>>
    /\ structLogs = <<>>
    /\ receipt = <<>>
    /\ suppressWarnings = FALSE
    /\ sevents = <<>>
    /\ pathMap = <<>>
    /\ visits = <<>>
    /\ warnings = <<>>
    /\ i = 0
    /\ li = 0
    /\ result = <<>>

----------------------------------------------------------------------------
(* The deriver run step by step.  The trace is supplied one step at a      *)
(* time: the state after i iterations depends on steps[0..i-1] alone.      *)
(* The code never reads a step's pc, it only copies it into the record of  *)
(* a LOG step, so the traces number their steps, pc = i, and a record      *)
(* names the step it comes from.                                           *)

Cur == [frames |-> frames, prevDepth |-> prevDepth, pending |-> pending,
        events |-> events, pushed |-> <<>>, popped |-> <<>>]

TopPath(fs) == fs[Len(fs)].path

\* iteration i of the loop, on the step s = steps[i]
DeriveStep(s) ==
    /\ pc = "derive"
    /\ Len(steps) < MaxSteps
    /\ LET st0 == IF Len(steps) = 0 THEN DeriveStart(s.depth) ELSE Cur
           st  == LoopBody(st0, s)
       IN  /\ steps' = Append(steps, s)
           /\ frames' = st.frames
           /\ prevDepth' = st.prevDepth
           /\ pending' = st.pending
           /\ events' = st.events
           /\ trail' = Append(trail, [pushed |-> st.pushed, popped |-> st.popped,
                                      top |-> TopPath(st.frames),
                                      reserved |-> st.pending])
    /\ UNCHANGED <<pc, out, svars, evars>>

\* the end of the loop: the pending reservation is cleared, the output built
DeriveFinish ==
    /\ pc = "derive"
    /\ pending' = <<>>
    /\ out' = Finalize(events, 1, <<>>, <<>>)
    /\ pc' = "derived"
    /\ UNCHANGED <<steps, frames, prevDepth, events, trail, svars, evars>>

DeriveInit ==
    /\ pc = "derive"
    /\ steps = <<>>
    /\ frames = <<RootFrame>>
    /\ prevDepth = 1
    /\ pending = <<>>
    /\ events = <<>>
    /\ out = <<>>
    /\ trail = <<>>
    /\ StitchIdle
    /\ EnrichIdle

DeriveNext ==
    \/ \E op \in StepOps, d \in Depths :
          DeriveStep([op |-> op, depth |-> d, pc |-> Len(steps)])
    \/ DeriveFinish

vars == <<pc, dvars, svars, evars>>

SpecDerive == DeriveInit /\ [][DeriveNext]_vars

----------------------------------------------------------------------------
(* The deriver on the traces the EVM produces: the first step is at depth  *)
(* 1 and the depth rises by exactly 1, and only on the step right after a  *)
(* CALL/CREATE-family step.  These traces are fewer, so they run longer.   *)

\* Bound of these traces: the number of steps.
MaxEVMSteps == 6

\* the step s may follow the steps consumed so far
EVMStep(s) ==
    IF steps = <<>> THEN s.depth = 1
    ELSE LET last == steps[Len(steps)]
         IN  \/ s.depth <= last.depth
             \/ s.depth = last.depth + 1 /\ last.op \in ENTER

\* iteration i of the loop, on the step s = steps[i]
DeriveEVMStep(s) ==
    /\ pc = "derive"
    /\ Len(steps) < MaxEVMSteps
    /\ EVMStep(s)
    /\ LET st0 == IF Len(steps) = 0 THEN DeriveStart(s.depth) ELSE Cur
           st  == LoopBody(st0, s)
       IN  /\ steps' = Append(steps, s)
           /\ frames' = st.frames
           /\ prevDepth' = st.prevDepth
           /\ pending' = st.pending
           /\ events' = st.events
           /\ trail' = Append(trail, [pushed |-> st.pushed, popped |-> st.popped,
                                      top |-> TopPath(st.frames),
                                      reserved |-> st.pending])
    /\ UNCHANGED <<pc, out, svars, evars>>

DeriveEVMNext ==
    \/ \E op \in StepOps, d \in Depths :
          DeriveEVMStep([op |-> op, depth |-> d, pc |-> Len(steps)])
    \/ DeriveFinish

SpecDeriveEVM == DeriveInit /\ [][DeriveEVMNext]_vars

----------------------------------------------------------------------------
(* stitchLogsIntoCallTrace, one action per loop iteration.                 *)
(* A warning is the record of its kind and of the values its text states.  *)

\* CountCheck with a bug: only a shortage of events is reported
CountCheckShortage(E, L) ==
    IF E < L THEN <<[kind |-> "count", events |-> E, logs |-> L]>> ELSE <<>>

\* the count-mismatch warning, when the two lengths differ
CountCheck(E, L) ==
    IF E # L THEN <<[kind |-> "count", events |-> E, logs |-> L]>> ELSE <<>>

\* InitLogs with a bug: a node whose key is the empty string is skipped
InitLogsTruthyKey(ns, map) ==
    [id \in DOMAIN ns |->
        IF \E key \in DOMAIN map : map[key] = id /\ key # <<>>
        THEN [ns[id] EXCEPT !.logs = <<(<<>>)>>]
        ELSE ns[id]]

\* for (const [, node] of pathMap) node.logs = []
InitLogs(ns, map) ==
    [id \in DOMAIN ns |->
        IF \E key \in DOMAIN map : map[key] = id
        THEN [ns[id] EXCEPT !.logs = <<(<<>>)>>]
        ELSE ns[id]]

\* AddressCheck with a bug: the log's address is compared as it is spelled
AddressCheckCaseSensitive(expectedAddr, log, key, idx) ==
    IF /\ Truthy(expectedAddr)
       /\ log.address # <<>>
       /\ expectedAddr[1] # log.address
    THEN <<[kind |-> "address", key |-> key, expected |-> expectedAddr[1],
            got |-> log.address, li |-> idx]>>
    ELSE <<>>

\* the optional sanity check on the address: the warning, if any
AddressCheck(expectedAddr, log, key, idx) ==
    IF /\ Truthy(expectedAddr)
       /\ log.address # <<>>
       /\ expectedAddr[1] # toLowerCase(log.address)
    THEN <<[kind |-> "address", key |-> key, expected |-> expectedAddr[1],
            got |-> toLowerCase(log.address), li |-> idx]>>
    ELSE <<>>

\* PushLog with a bug: unshift instead of push
PushLogFront(ns, id, log) ==
    [ns EXCEPT ![id].logs = <<(<<log>> \o ns[id].logs[1])>>]

\* PushLog with a bug: in the default mode nothing is attached once a
\* warning has been made
PushLogUnlessFailing(ns, id, log) ==
    IF suppressWarnings \/ warnings = <<>>
    THEN [ns EXCEPT ![id].logs = <<Append(ns[id].logs[1], log)>>]
    ELSE ns

\* (node.logs as ReceiptLog[]).push(log)
PushLog(ns, id, log) ==
    [ns EXCEPT ![id].logs = <<Append(ns[id].logs[1], log)>>]

\* `no callTracer node for path [${key}] at receipt log #${li}`
MissingNodeWarning(key, idx) == [kind |-> "nonode", key |-> key, li |-> idx]

\* LeftoverWarning with a bug: the log is numbered from 1
LeftoverWarningFromOne(idx) == [kind |-> "leftover", li |-> idx + 1]

\* `leftover receipt log #${li} not mapped`
LeftoverWarning(idx) == [kind |-> "leftover", li |-> idx]

\* MustThrow with a bug: a single warning is let through
MustThrowSeveral(ws, suppress) == Len(ws) > 1 /\ ~suppress

\* warnings.length > 0 && !suppressWarnings
MustThrow(ws, suppress) == Len(ws) > 0 /\ ~suppress

\* the call, up to the attach loop: derive, annotate, count check, init logs
StitchStart ==
    /\ pc = "stitch"
    /\ LET ev == deriveEventPathsRevertAware(structLogs)
           an == annotateCallPaths(callsFromCallTracer, nodes)
       IN  /\ sevents' = ev
           /\ pathMap' = an.pathMap
           /\ visits' = an.visits
           /\ warnings' = CountCheck(Len(ev), Len(receipt))
           /\ nodes' = InitLogs(an.nodes, an.pathMap)
    /\ i' = 0
    /\ li' = 0
    /\ pc' = "attach"
    /\ UNCHANGED <<dvars, evars, callsFromCallTracer, structLogs, receipt,
                   suppressWarnings, result>>

\* AttachPair with a bug: a pair whose path is missing does not consume its
\* receipt log (li stays, i advances)
AttachPairKeepsLog ==
    /\ pc = "attach"
    /\ i < Len(sevents) /\ li < Len(receipt)
    /\ LET e   == sevents[i + 1]
           key == Join(e.callPath)
       IN  IF key \notin DOMAIN pathMap
           THEN /\ warnings' = Append(warnings, MissingNodeWarning(key, li))
                /\ li' = li
                /\ UNCHANGED nodes
           ELSE LET id  == pathMap[key]
                    log == receipt[li + 1]
                    expectedAddr == expectedLogAddressForNode(nodes[id])
                IN  /\ warnings' = warnings \o AddressCheck(expectedAddr, log, key, li)
                    /\ nodes' = PushLog(nodes, id, log)
                    /\ li' = li + 1
    /\ i' = i + 1
    /\ UNCHANGED <<pc, dvars, evars, callsFromCallTracer, structLogs, receipt,
                   suppressWarnings, sevents, pathMap, visits, result>>

\* AttachPair with a bug: a log is attached only when the counts agree
AttachPairWhenCountsAgree ==
    /\ pc = "attach"
    /\ i < Len(sevents) /\ li < Len(receipt)
    /\ LET e   == sevents[i + 1]
           key == Join(e.callPath)
       IN  IF key \notin DOMAIN pathMap
           THEN /\ warnings' = Append(warnings, MissingNodeWarning(key, li))
                /\ UNCHANGED nodes
           ELSE LET id  == pathMap[key]
                    log == receipt[li + 1]
                    expectedAddr == expectedLogAddressForNode(nodes[id])
                IN  /\ warnings' = warnings \o AddressCheck(expectedAddr, log, key, li)
                    /\ nodes' = IF Len(sevents) = Len(receipt)
                                THEN PushLog(nodes, id, log)
                                ELSE nodes
    /\ i' = i + 1
    /\ li' = li + 1
    /\ UNCHANGED <<pc, dvars, evars, callsFromCallTracer, structLogs, receipt,
                   suppressWarnings, sevents, pathMap, visits, result>>

\* one iteration of the attach loop, with its i++, li++
AttachPair ==
    /\ pc = "attach"
    /\ i < Len(sevents) /\ li < Len(receipt)
    /\ LET e   == sevents[i + 1]
           key == Join(e.callPath)
       IN  IF key \notin DOMAIN pathMap
           THEN /\ warnings' = Append(warnings, MissingNodeWarning(key, li))
                /\ UNCHANGED nodes
           ELSE LET id  == pathMap[key]
                    log == receipt[li + 1]
                    expectedAddr == expectedLogAddressForNode(nodes[id])
                IN  /\ warnings' = warnings \o AddressCheck(expectedAddr, log, key, li)
                    /\ nodes' = PushLog(nodes, id, log)
    /\ i' = i + 1
    /\ li' = li + 1
    /\ UNCHANGED <<pc, dvars, evars, callsFromCallTracer, structLogs, receipt,
                   suppressWarnings, sevents, pathMap, visits, result>>

\* one iteration of the loop over the leftover logs
LeftoverLog ==
    /\ pc = "attach"
    /\ ~(i < Len(sevents) /\ li < Len(receipt))
    /\ li < Len(receipt)
    /\ warnings' = Append(warnings, LeftoverWarning(li))
    /\ li' = li + 1
    /\ UNCHANGED <<pc, dvars, evars, callsFromCallTracer, nodes, structLogs, receipt,
                   suppressWarnings, sevents, pathMap, visits, i, result>>

\* after both loops: throw the aggregated warnings, or return
StitchEnd ==
    /\ pc = "attach"
    /\ ~(i < Len(sevents) /\ li < Len(receipt))
    /\ ~(li < Len(receipt))
    /\ IF MustThrow(warnings, suppressWarnings)
       THEN /\ result' = <<[kind    |-> "throw",
                            header  |-> "Warnings during stitchLogsIntoCallTrace:",
                            lines   |-> warnings]>>
            /\ pc' = "thrown"
       ELSE /\ result' = <<[kind |-> "return", root |-> callsFromCallTracer,
                            warnings |-> warnings]>>
            /\ pc' = "returned"
    /\ UNCHANGED <<dvars, evars, callsFromCallTracer, nodes, structLogs, receipt,
                   suppressWarnings, sevents, pathMap, visits, warnings, i, li>>

\* the deriver's own variables while the stitcher runs (it calls the
\* deriver as a function)
DeriveIdle ==
    /\ steps = <<>>
    /\ frames = <<RootFrame>>
    /\ prevDepth = 1
    /\ pending = <<>>
    /\ events = <<>>
    /\ out = <<>>
    /\ trail = <<>>

StitchInit ==
    /\ pc = "stitch"
    /\ DeriveIdle
    /\ EnrichIdle
    /\ \E tree \in Trees :
          /\ callsFromCallTracer = tree.root
          /\ nodes = tree.nodes
    /\ structLogs \in StitchTraces
    /\ receipt \in Receipts
    /\ suppressWarnings \in BOOLEAN
    /\ sevents = <<>>
    /\ pathMap = <<>>
    /\ visits = <<>>
    /\ warnings = <<>>
    /\ i = 0
    /\ li = 0
    /\ result = <<>>

StitchNext ==
    \/ StitchStart
    \/ AttachPair
    \/ LeftoverLog
    \/ StitchEnd

SpecStitch == StitchInit /\ [][StitchNext]_vars

----------------------------------------------------------------------------
(* enrichTraceWithCallAndEventDetails, one action per call of enrichCall.  *)
(* The recursion visits a call, then its children from the first to the    *)
(* last: todo holds the calls not yet visited, in that order.              *)

\* enrichCall(call), up to the recursion into the children
EnrichCall ==
    /\ pc = "enrich"
    /\ todo # <<>>
    /\ LET id   == Head(todo)
           call == callNodes[id]
       IN  /\ callNodes' = [callNodes EXCEPT
                 ![id].method = MethodOf(call.input),
                 ![id].logs = IF call.logs # <<>>
                              THEN <<ParsedLogs(call.logs[1])>>
                              ELSE call.logs]
           /\ todo' = Kids(callNodes, id) \o Tail(todo)
    /\ UNCHANGED <<pc, dvars, svars, enriched, selectors, topics>>

\* the return of enrichTraceWithCallAndEventDetails
EnrichReturn ==
    /\ pc = "enrich"
    /\ todo = <<>>
    /\ pc' = "enriched"
    /\ UNCHANGED <<dvars, svars, evars>>

\* a call node as the stitcher leaves it, with its input and without method
EnrichNode(input, logs, kids) ==
    [input |-> input, method |-> <<>>, logs |-> logs, calls |-> kids]

EnrichInit ==
    /\ pc = "enrich"
    /\ DeriveIdle
    /\ StitchIdle
    /\ \E sh \in TreeShapes, logs \in LogLists :
          /\ enriched = sh.root
          /\ callNodes \in { [id \in DOMAIN sh.calls |->
                                 EnrichNode(input[id], logs, sh.calls[id])]
                              : input \in [DOMAIN sh.calls -> Inputs] }
          /\ todo = sh.root.ids
    /\ selectors \in SelectorTables
    /\ topics \in TopicTables

EnrichNext ==
    \/ EnrichCall
    \/ EnrichReturn

SpecEnrich == EnrichInit /\ [][EnrichNext]_vars

----------------------------------------------------------------------------
(* Claims about deriveEventPathsRevertAware, under SpecDerive.             *)
(* A frame is named by its path; a step and the record of a LOG step are   *)
(* named by the step's pc.  trail[j].top is the frame that was on top when *)
(* step j ran its own effects (reservation, log capture, revert marking).  *)

\* the 1-based position of the step the provisional record k comes from
StepOf(k) == events[k].pc + 1

\* the frame in which the provisional record k was emitted
FrameOf(k) == trail[StepOf(k)].top

\* the step with this pc has a record in the finalized output
InOut(p) == \E m \in DOMAIN out : out[m].pc = p

\* REVERT executed at a step before step j while frame P was on top
RevertedBefore(P, j) ==
    \E r \in 1..(j - 1) : steps[r].op = "REVERT" /\ trail[r].top = P

\* frame P was popped by step j
PoppedAt(P, j) == \E n \in DOMAIN trail[j].popped : trail[j].popped[n] = P

\* the pcs of the records of a list, in order
Pcs(recs) == [m \in DOMAIN recs |-> recs[m].pc]

\* the records of a list that are not dropped, in order
RECURSIVE Retained(_)
Retained(evs) ==
    IF evs = <<>> THEN <<>>
    ELSE IF evs[1].dropped THEN Retained(Tail(evs))
    ELSE <<evs[1]>> \o Retained(Tail(evs))

\* C1 (as claimed): once the run has returned, no record emitted directly in
\* a frame in which REVERT executed is in the finalized output, whatever
\* follows the REVERT and also when nothing follows it.
C1_RevertedFrameLogsRemoved ==
    pc = "derived" =>
        \A j \in DOMAIN steps, l \in DOMAIN steps :
            (/\ steps[j].op = "REVERT"
             /\ StartsWithLOG(steps[l].op)
             /\ trail[l].top = trail[j].top)
            => ~InOut(steps[l].pc)

\* C2: a provisional record is dropped exactly when the frame it was emitted
\* in executed REVERT and was popped afterwards (after every step, so the
\* records a pop removes are those of the popped frame and no others), and
\* the finalized output holds exactly the records that are not dropped:
\* records of sibling and ancestor frames that did not execute REVERT stay.
C2_RevertPopDropsExactlyOwnLogs ==
    /\ \A k \in DOMAIN events :
          events[k].dropped <=>
              \E j \in DOMAIN steps :
                  PoppedAt(FrameOf(k), j) /\ RevertedBefore(FrameOf(k), j)
    /\ pc = "derived" => Pcs(out) = Pcs(Retained(events))

\* C2 witness: a reverted frame was popped and its record removed while a
\* record of another frame is in the output.
C2_Witness ==
    /\ pc = "derived"
    /\ \E k \in DOMAIN events : events[k].dropped /\ ~InOut(events[k].pc)
    /\ \E k \in DOMAIN events : ~events[k].dropped /\ InOut(events[k].pc)

\* the greatest element of a non-empty finite set of integers
Max(S) == CHOOSE x \in S : \A y \in S : y <= x

NoRevert == \A j \in DOMAIN steps : steps[j].op # "REVERT"

\* the positions of the LOG steps
LogSteps == {j \in DOMAIN steps : StartsWithLOG(steps[j].op)}

\* a trace as the EVM produces it: it starts at depth 1 and the depth rises
\* by exactly 1, and only on the step right after a CALL/CREATE-family step
WellFormed ==
    /\ steps # <<>> => steps[1].depth = 1
    /\ \A j \in 2..Len(steps) :
          steps[j].depth > steps[j - 1].depth =>
              /\ steps[j].depth = steps[j - 1].depth + 1
              /\ steps[j - 1].op \in ENTER

\* in a well-formed trace: the step whose call entered level k + 1 of the
\* frame chain that is active at step j (the last rise from k to k + 1)
EntryCall(j, k) ==
    Max({c \in 1..(j - 1) : steps[c].depth = k /\ steps[c + 1].depth = k + 1})

\* the first step of the level-k frame in which step c (at depth k) runs
FrameStart(c, k) ==
    Max({0} \cup {m \in 1..(c - 1) : steps[m].depth < k}) + 1

\* the CALL/CREATE-family steps executed in that level-k frame before step c
CallsBefore(c, k) ==
    Cardinality({m \in FrameStart(c, k)..(c - 1) :
                    steps[m].depth = k /\ steps[m].op \in ENTER})

\* C3: on a trace with no REVERT the finalized output has one record per LOG
\* step, in step order, each with the path of the frame on top at its step;
\* on a well-formed trace that path has depth - 1 elements and its k-th
\* element counts the CALL/CREATE-family steps executed earlier in the
\* level-k ancestor frame, before the call that entered level k + 1.
C3_NoRevertEveryLogKeptAtItsFrame ==
    (pc = "derived" /\ NoRevert) =>
        /\ Len(out) = Cardinality(LogSteps)
        /\ \A m \in DOMAIN out :
              /\ out[m].pc + 1 \in LogSteps
              /\ \A n \in DOMAIN out : m < n => out[m].pc < out[n].pc
              /\ out[m].callPath = trail[out[m].pc + 1].top
        /\ WellFormed =>
              \A m \in DOMAIN out :
                  LET j == out[m].pc + 1
                      d == steps[j].depth
                  IN  /\ Len(out[m].callPath) = d - 1
                      /\ \A k \in 1..(d - 1) :
                            out[m].callPath[k] = CallsBefore(EntryCall(j, k), k)

\* C3 witness: a well-formed trace with no REVERT whose record sits in a
\* child entered after an earlier call of the same parent.
C3_Witness ==
    /\ pc = "derived" /\ NoRevert /\ WellFormed
    /\ \E m \in DOMAIN out :
          /\ out[m].callPath # <<>>
          /\ out[m].callPath[Len(out[m].callPath)] >= 1

\* the CALL/CREATE-family steps before step j that ran with frame P on top
EnterStepsIn(P, j) ==
    {m \in 1..(j - 1) : steps[m].op \in ENTER /\ trail[m].top = P}

\* the path reserved by the CALL/CREATE-family step j
ReservedPath(j) ==
    Append(trail[j].top, Cardinality(EnterStepsIn(trail[j].top, j)))

\* step j is a zero-step call: the next step is not deeper
ZeroStepCall(j) ==
    /\ j \in 1..(Len(steps) - 1)
    /\ steps[j].op \in ENTER
    /\ steps[j + 1].depth <= steps[j].depth

\* C4: a zero-step call pushes no frame and its reserved path is never the
\* path of a frame or of a record, yet it consumes a child index: the index
\* of every frame pushed is the number of CALL/CREATE-family steps executed
\* before in its parent frame, entered or not; no path is given twice.
C4_ZeroStepCallConsumesIndex ==
    /\ \A j \in DOMAIN steps :
          ZeroStepCall(j) =>
              /\ trail[j + 1].pushed = <<>>
              /\ \A n \in DOMAIN steps : trail[n].pushed # <<ReservedPath(j)>>
              /\ \A k \in DOMAIN events : events[k].callPath # ReservedPath(j)
    /\ \A j \in DOMAIN steps :
          trail[j].pushed # <<>> =>
              /\ j > 1
              /\ steps[j - 1].op \in ENTER
              /\ trail[j].pushed = <<ReservedPath(j - 1)>>
    /\ \A j \in DOMAIN steps, n \in DOMAIN steps :
          (j # n /\ trail[j].pushed # <<>>) => trail[j].pushed # trail[n].pushed
    /\ \A n \in DOMAIN frames :
          frames[n].nextChild =
              Cardinality(EnterStepsIn(frames[n].path, Len(steps) + 1))

\* C4 witness: after a zero-step call, a later call of the same parent was
\* entered and its frame got the next index.
C4_Witness ==
    \E j \in DOMAIN steps, n \in DOMAIN steps :
        /\ ZeroStepCall(j)
        /\ j < n
        /\ trail[n].pushed # <<>>
        /\ trail[n - 1].top = trail[j].top
        /\ trail[n].pushed[1] = Append(trail[j].top, 1)

----------------------------------------------------------------------------
(* Claims about stitchLogsIntoCallTrace, under SpecStitch.                 *)
(* A receipt log is named by its logIndex (its position in the receipt).   *)

\* the call has returned or thrown
Done == pc \in {"returned", "thrown"}

\* the numbers of derived events and of receipt logs, and the smaller one
E == Len(sevents)
L == Len(receipt)
MinEL == IF E < L THEN E ELSE L

\* the logs attached to a node
Attached(id) == IF nodes[id].logs = <<>> THEN <<>> ELSE nodes[id].logs[1]

\* the places (node, position) where the receipt log n (0-based) is attached
PlacesOf(n) ==
    {p \in (DOMAIN nodes) \X (1..L) :
        p[2] \in DOMAIN Attached(p[1]) /\ Attached(p[1])[p[2]] = receipt[n + 1]}

\* the nodes that carry the path of the event n (0-based)
NodesAtEvent(n) ==
    {id \in DOMAIN nodes : nodes[id]._path = <<sevents[n + 1].callPath>>}

\* the path of the event n is a key of the path map
Resolvable(n) == Join(sevents[n + 1].callPath) \in DOMAIN pathMap

\* the positions of the warnings of a kind about the receipt log n
WarningsAbout(kind, n) ==
    {w \in DOMAIN warnings : warnings[w].kind = kind /\ warnings[w].li = n}

\* C5: when E = L and every event path is a key of the path map, receipt
\* log n is attached to the node that carries the path of event n, every
\* receipt log is attached at exactly one place, and every node holds its
\* logs in increasing receipt order.
C5_PositionalBijection ==
    (Done /\ E = L /\ \A n \in 0..(E - 1) : Resolvable(n)) =>
        /\ \A n \in 0..(L - 1) :
              /\ Cardinality(PlacesOf(n)) = 1
              /\ Cardinality(NodesAtEvent(n)) = 1
              /\ \A p \in PlacesOf(n) : p[1] \in NodesAtEvent(n)
        /\ \A id \in DOMAIN nodes :
              \A a \in DOMAIN Attached(id), b \in DOMAIN Attached(id) :
                  a < b => Attached(id)[a].logIndex < Attached(id)[b].logIndex

\* C5 witness: three events and three logs, all resolvable; one node got two
\* of the logs, and another node got the log between them.
C5_Witness ==
    /\ Done /\ E = L /\ L = 3
    /\ \A n \in 0..(E - 1) : Resolvable(n)
    /\ \E id \in DOMAIN nodes, other \in DOMAIN nodes :
          /\ Len(Attached(id)) = 2
          /\ Len(Attached(other)) = 1
          /\ Attached(id)[1].logIndex < Attached(other)[1].logIndex
          /\ Attached(other)[1].logIndex < Attached(id)[2].logIndex

\* C6: in the default mode the call throws exactly when a warning was
\* produced, and the error carries every warning line in order; in the
\* lenient mode it returns, whatever the warnings; a return gives back the
\* root it was given and the whole warning list.
C6_ThrowsIffWarningsUnlessLenient ==
    Done =>
        /\ result # <<>>
        /\ ~suppressWarnings => (result[1].kind = "throw" <=> warnings # <<>>)
        /\ suppressWarnings => result[1].kind = "return"
        /\ result[1].kind = "throw" =>
              /\ pc = "thrown"
              /\ result[1].header = "Warnings during stitchLogsIntoCallTrace:"
              /\ result[1].lines = warnings
        /\ result[1].kind = "return" =>
              /\ pc = "returned"
              /\ result[1].root = callsFromCallTracer
              /\ result[1].warnings = warnings

\* C6 witness: the default mode threw an error of several warning lines.
C6_Witness ==
    /\ pc = "thrown"
    /\ ~suppressWarnings
    /\ Len(result[1].lines) >= 2

\* the positions of the count-mismatch warnings
CountWarnings == {w \in DOMAIN warnings : warnings[w].kind = "count"}

\* C7: once the walk has begun, there is a count-mismatch warning exactly
\* when E differs from L; there is then one, it states both counts, and it
\* is the first entry of the warning list.
C7_CountMismatchWarnedFirst ==
    pc # "stitch" =>
        /\ E # L <=> CountWarnings # {}
        /\ CountWarnings \subseteq {1}
        /\ E # L => warnings[1] = [kind |-> "count", events |-> E, logs |-> L]

\* C7 witness: more events than logs, and a warning of another kind
\* follows the count-mismatch warning.
C7_Witness ==
    /\ Done /\ E > L
    /\ Len(warnings) >= 2
    /\ warnings[1].kind = "count"
    /\ warnings[2].kind \in {"nonode", "address"}

\* the positions of the leftover warnings
LeftoverWarnings == {w \in DOMAIN warnings : warnings[w].kind = "leftover"}

\* C8: every receipt log from min(E, L) on has exactly one leftover warning,
\* naming its index, and is attached nowhere; no log below min(E, L) has
\* one; there are L - min(E, L) leftover warnings.
C8_LeftoverLogsWarnedOnce ==
    Done =>
        /\ \A n \in MinEL..(L - 1) :
              /\ Cardinality(WarningsAbout("leftover", n)) = 1
              /\ PlacesOf(n) = {}
        /\ \A n \in 0..(MinEL - 1) : WarningsAbout("leftover", n) = {}
        /\ Cardinality(LeftoverWarnings) = L - MinEL

\* C8 witness: one event, three logs: the last two logs are left over.
C8_Witness ==
    /\ Done /\ E = 1 /\ L = 3
    /\ Cardinality(LeftoverWarnings) = 2

\* the pairs whose event path is not a key of the path map
MissingPairs == {n \in 0..(MinEL - 1) : ~Resolvable(n)}

\* the number of logs attached over all nodes
RECURSIVE SumAttached(_)
SumAttached(ids) ==
    IF ids = {} THEN 0
    ELSE LET id == CHOOSE x \in ids : TRUE
         IN  Len(Attached(id)) + SumAttached(ids \ {id})

\* C9: a pair whose event path is not in the map gives exactly one warning,
\* naming the path and the log position, and its log is attached nowhere;
\* the walk stays aligned (while the attach loop runs li = i, and the log
\* of every resolvable pair is attached at the node of the event with the
\* same index); the attached logs number min(E, L) less the missing pairs.
C9_MissingPathSkipsPairOnly ==
    /\ (pc = "attach" /\ i < E /\ li < L) => li = i
    /\ Done =>
          /\ \A n \in MissingPairs :
                /\ Cardinality(WarningsAbout("nonode", n)) = 1
                /\ \A w \in WarningsAbout("nonode", n) :
                      warnings[w].key = Join(sevents[n + 1].callPath)
                /\ PlacesOf(n) = {}
          /\ \A n \in (0..(MinEL - 1)) \ MissingPairs :
                /\ WarningsAbout("nonode", n) = {}
                /\ PlacesOf(n) # {}
                /\ \A p \in PlacesOf(n) : p[1] \in NodesAtEvent(n)
          /\ SumAttached(DOMAIN nodes) = MinEL - Cardinality(MissingPairs)

\* C9 witness: a pair with a missing path was skipped and the next pair
\* was attached.
C9_Witness ==
    /\ Done
    /\ \E n \in MissingPairs :
          /\ n + 1 < MinEL
          /\ Resolvable(n + 1)
          /\ PlacesOf(n + 1) # {}
          /\ PlacesOf(n) = {}

\* the address the claim expects of the emitter of a node's logs, if the
\* node has it: the source address of a DELEGATECALL or CALLCODE node, the
\* destination address of any other node
ExpectedEmitter(node) ==
    IF node.type \in {"DELEGATECALL", "CALLCODE"} THEN node.from ELSE node.to

\* two addresses differ, ignoring letter case (a missing one differs from any)
DiffersIgnoringCase(optAddr, addr) ==
    optAddr = <<>> \/ toLowerCase(optAddr[1]) # toLowerCase(addr)

\* the attached pairs: the log positions whose event path is in the map
AttachedPairs == (0..(MinEL - 1)) \ MissingPairs

\* the node the pair n is attached to
NodeOfPair(n) == pathMap[Join(sevents[n + 1].callPath)]

\* C10 (as claimed): for every attached pair there is an address-mismatch
\* warning exactly when the log's address differs, ignoring letter case,
\* from the node's expected emitter address.
C10_WarnedIffAddressDiffers ==
    Done =>
        \A n \in AttachedPairs :
            WarningsAbout("address", n) # {} <=>
                DiffersIgnoringCase(ExpectedEmitter(nodes[NodeOfPair(n)]),
                                    receipt[n + 1].address)

\* C10 (amended): for every attached pair there is an address-mismatch
\* warning exactly when the node has an expected emitter address, it and
\* the log's address are not empty, and they differ ignoring letter case;
\* there is then one, stating both addresses in lower case; the log is
\* attached to the node in both cases.
C10_WarnedIffBothPresentAndDiffer ==
    Done =>
        \A n \in AttachedPairs :
            LET node     == nodes[NodeOfPair(n)]
                expected == ExpectedEmitter(node)
                addr     == receipt[n + 1].address
            IN  /\ WarningsAbout("address", n) # {} <=>
                      /\ expected # <<>>
                      /\ expected[1] # <<>>
                      /\ addr # <<>>
                      /\ DiffersIgnoringCase(expected, addr)
                /\ Cardinality(WarningsAbout("address", n)) <= 1
                /\ \A w \in WarningsAbout("address", n) :
                      /\ warnings[w].expected = toLowerCase(expected[1])
                      /\ warnings[w].got = toLowerCase(addr)
                      /\ warnings[w].key = Join(sevents[n + 1].callPath)
                /\ \E p \in PlacesOf(n) : p[1] = NodeOfPair(n)

\* C10 witness: one DELEGATECALL node got a log with the caller's address
\* and no warning; one got a log with the target's address, in another
\* letter case, and a warning.
C10_Witness ==
    /\ Done
    /\ \E n \in AttachedPairs :
          /\ nodes[NodeOfPair(n)].type = "DELEGATECALL"
          /\ receipt[n + 1].address = nodes[NodeOfPair(n)].from[1]
          /\ WarningsAbout("address", n) = {}
          /\ PlacesOf(n) # {}
    /\ \E n \in AttachedPairs :
          /\ nodes[NodeOfPair(n)].type = "DELEGATECALL"
          /\ receipt[n + 1].address # nodes[NodeOfPair(n)].to[1]
          /\ toLowerCase(receipt[n + 1].address) = toLowerCase(nodes[NodeOfPair(n)].to[1])
          /\ WarningsAbout("address", n) # {}
          /\ PlacesOf(n) # {}

\* ---------------------------------------------------------------------------
\* The trace of one call that emits an event and reverts, and the tree of a
\* root with one child.
RevertedCallTrace ==
    Trace(<< <<"CALL", 1>>, <<"LOG1", 2>>, <<"REVERT", 2>>, <<"STOP", 1>> >>)

RootWithOneChild ==
    /\ ~callsFromCallTracer.isArray
    /\ callsFromCallTracer.ids = <<1>>
    /\ DOMAIN nodes = 1..2
    /\ Kids(nodes, 1) = <<2>>
    /\ Kids(nodes, 2) = <<>>

RevertedCallScenario ==
    /\ structLogs = RevertedCallTrace
    /\ RootWithOneChild
    /\ L = 1

\* C11: for the trace CALL at depth 1, LOG1 at depth 2, REVERT at depth 2,
\* STOP at depth 1, the tree of a root with one child and one receipt log:
\* the derived list of events is empty, the warnings are exactly the
\* count mismatch (0 derived, 1 receipt log) followed by the leftover
\* warning of log 0, no node has an attached log, the lenient call returns
\* these warnings and the default call fails.
C11_RevertedCallLeavesLogUnattached ==
    RevertedCallScenario =>
        /\ pc # "stitch" => sevents = <<>>
        /\ Done =>
              /\ warnings = << [kind |-> "count", events |-> 0, logs |-> 1],
                               [kind |-> "leftover", li |-> 0] >>
              /\ \A id \in DOMAIN nodes : Attached(id) = <<>>
              /\ suppressWarnings =>
                    /\ pc = "returned"
                    /\ result[1].warnings = warnings
              /\ ~suppressWarnings => pc = "thrown"

\* C11 witness: the lenient call on the scenario has returned.
C11_Witness ==
    /\ RevertedCallScenario
    /\ suppressWarnings
    /\ pc = "returned"
    /\ Len(result[1].warnings) = 2

\* ---------------------------------------------------------------------------
\* The trace of two sibling CALLs that each emit one event, the tree of a
\* root with the two CALL nodes as its children, and the two receipt logs,
\* in order, with the destination addresses of the two children.
SiblingCallsTrace ==
    Trace(<< <<"CALL", 1>>, <<"LOG1", 2>>, <<"CALL", 1>>, <<"LOG1", 2>> >>)

RootWithTwoChildren ==
    /\ ~callsFromCallTracer.isArray
    /\ callsFromCallTracer.ids = <<1>>
    /\ DOMAIN nodes = 1..3
    /\ Kids(nodes, 1) = <<2, 3>>
    /\ Kids(nodes, 2) = <<>>
    /\ Kids(nodes, 3) = <<>>

HasDestinationOf(log, id) ==
    /\ nodes[id].type = "CALL"
    /\ nodes[id].to # <<>>
    /\ toLowerCase(log.address) = toLowerCase(nodes[id].to[1])

SiblingCallsScenario ==
    /\ structLogs = SiblingCallsTrace
    /\ RootWithTwoChildren
    /\ L = 2
    /\ HasDestinationOf(receipt[1], 2)
    /\ HasDestinationOf(receipt[2], 3)

\* C12: for two sibling CALLs made from depth 1 that each enter depth 2 and
\* emit one LOG there, without REVERT, a single-root tree whose root has the
\* two children, and two receipt logs in matching order whose addresses are
\* the children's destination addresses: the first log is attached to child
\* 0 and the second to child 1, each child has exactly one log, the root
\* gets the empty list, there is no warning, and the call returns in the
\* default mode too.
C12_SiblingCallsGetTheirLogs ==
    (SiblingCallsScenario /\ Done) =>
        /\ nodes[2].logs = << <<receipt[1]>> >>
        /\ nodes[3].logs = << <<receipt[2]>> >>
        /\ nodes[1].logs = <<(<<>>)>>
        /\ warnings = <<>>
        /\ pc = "returned"
        /\ result[1].warnings = <<>>

\* C12 witness: the default call on the scenario has returned; the first
\* child's destination differs from its log's address in letter case only,
\* the second child's is spelled as its log's address.
C12_Witness ==
    /\ SiblingCallsScenario
    /\ ~suppressWarnings
    /\ pc = "returned"
    /\ receipt[1].address # nodes[2].to[1]
    /\ receipt[2].address = nodes[3].to[1]
    /\ Len(Attached(2)) = 1 /\ Len(Attached(3)) = 1

\* ---------------------------------------------------------------------------
\* a trace without a LOG step
NoLogStep == \A n \in DOMAIN structLogs : ~StartsWithLOG(structLogs[n].op)

\* C13: for every call tree and every step trace without a LOG step,
\* stitched with an empty receipt: there is no warning, the call returns in
\* the default mode too, and every node has a structural path and an empty
\* list of attached logs.
C13_NoLogNoReceiptRoundTrip ==
    (NoLogStep /\ receipt = <<>>) =>
        /\ pc # "stitch" =>
              /\ sevents = <<>>
              /\ warnings = <<>>
              /\ \A id \in DOMAIN nodes :
                    /\ nodes[id]._path # <<>>
                    /\ nodes[id].logs = <<(<<>>)>>
        /\ Done =>
              /\ pc = "returned"
              /\ result[1].warnings = <<>>

\* C13 witness: the default call has returned on a trace of calls without a
\* LOG step, an empty receipt and a tree of three nodes.
C13_Witness ==
    /\ NoLogStep
    /\ structLogs # <<>>
    /\ receipt = <<>>
    /\ ~suppressWarnings
    /\ pc = "returned"
    /\ Cardinality(DOMAIN nodes) = 3

\* ---------------------------------------------------------------------------
\* The path of a node, and the paths as the tree's structure gives them.
PathOf(id) == nodes[id]._path[1]

Roots == callsFromCallTracer.ids

\* the nodes of the supplied tree: the roots and all their descendants
RECURSIVE Descendants(_, _)
Descendants(S, fuel) ==
    IF fuel = 0 THEN S
    ELSE Descendants(S \cup UNION { {Kids(nodes, id)[j] : j \in DOMAIN Kids(nodes, id)}
                                    : id \in S }, fuel - 1)

TreeNodes == Descendants({Roots[r] : r \in DOMAIN Roots}, Cardinality(DOMAIN nodes))

Occurrences(seq, x) == Cardinality({n \in DOMAIN seq : seq[n] = x})

\* C14: annotateCallPaths visits every node of the supplied tree exactly
\* once; a single root gets the empty path, the i-th top-level root of a
\* list gets [i], the j-th child of a node gets its parent's path followed
\* by j; the map has exactly one key per node, distinct nodes have distinct
\* keys, and every key maps to the node carrying that path.
C14_EveryNodeIndexedOnceByItsPath ==
    pc \notin {"stitch", "derive", "derived"} =>
        /\ \A id \in TreeNodes : Occurrences(visits, id) = 1
        /\ Len(visits) = Cardinality(TreeNodes)
        /\ \A id \in TreeNodes : nodes[id]._path # <<>>
        /\ ~callsFromCallTracer.isArray => PathOf(Roots[1]) = <<>>
        /\ callsFromCallTracer.isArray =>
              \A r \in DOMAIN Roots : PathOf(Roots[r]) = <<r - 1>>
        /\ \A id \in TreeNodes : \A j \in DOMAIN Kids(nodes, id) :
              PathOf(Kids(nodes, id)[j]) = Append(PathOf(id), j - 1)
        /\ Cardinality(DOMAIN pathMap) = Cardinality(TreeNodes)
        /\ \A a, b \in TreeNodes : a # b => Join(PathOf(a)) # Join(PathOf(b))
        /\ \A id \in TreeNodes :
              /\ Join(PathOf(id)) \in DOMAIN pathMap
              /\ pathMap[Join(PathOf(id))] = id
        /\ \A key \in DOMAIN pathMap :
              /\ pathMap[key] \in TreeNodes
              /\ Join(PathOf(pathMap[key])) = key

\* C14 witness: trees have been indexed: a list of two top-level calls whose
\* first has a child (paths [0], [1], [0, 0]).
C14_Witness ==
    /\ pc = "attach"
    /\ callsFromCallTracer.isArray
    /\ Len(visits) = 3
    /\ \E id \in TreeNodes : PathOf(id) = <<0, 0>>
    /\ \E id \in TreeNodes : PathOf(id) = <<1>>

\* ---------------------------------------------------------------------------
\* the records of a list before position m that carry the path P
EarlierWithPath(recs, m, P) == {n \in 1..(m - 1) : recs[n].callPath = P}

\* the provisional record from which the finalized record m was built
SourceOf(m) == CHOOSE k \in DOMAIN events : events[k].pc = out[m].pc

\* C15: in the finalized output the ordinals (eventIdxInCall) of the records
\* of one path are 0, 1, ..., k - 1 in output order; a dropped record
\* consumes no ordinal: the ordinal of a record is the number of retained
\* records of its path emitted before it.
C15_OrdinalsCountRetainedRecordsOfPath ==
    pc = "derived" =>
        /\ Pcs(out) = Pcs(Retained(events))
        /\ \A m \in DOMAIN out :
              /\ out[m].eventIdxInCall =
                    Cardinality(EarlierWithPath(out, m, out[m].callPath))
              /\ out[m].eventIdxInCall =
                    Cardinality({k \in EarlierWithPath(events, SourceOf(m), out[m].callPath) :
                                    ~events[k].dropped})

\* C15 witness: two records of the root with the ordinals 0 and 1 and,
\* between them, a record of a child with the ordinal 0.
C15_Witness ==
    /\ pc = "derived"
    /\ Len(out) = 3
    /\ out[1].callPath = <<>> /\ out[1].eventIdxInCall = 0
    /\ out[2].callPath = <<0>> /\ out[2].eventIdxInCall = 0
    /\ out[3].callPath = <<>> /\ out[3].eventIdxInCall = 1

\* ---------------------------------------------------------------------------
\* C16: the finalized output is a subsequence of the LOG steps, in execution
\* order and not grouped by path: every record is the record of one LOG
\* step, whose op, pc and depth it keeps, and the records follow one another
\* as their steps do.
C16_OutputIsSubsequenceOfLogSteps ==
    pc = "derived" =>
        /\ \A m \in DOMAIN out :
              /\ out[m].pc + 1 \in LogSteps
              /\ out[m].op = steps[out[m].pc + 1].op
              /\ out[m].pc = steps[out[m].pc + 1].pc
              /\ out[m].depth = steps[out[m].pc + 1].depth
        /\ \A m, n \in DOMAIN out : m < n => out[m].pc < out[n].pc

\* C16 witness: a record of a child comes before a record of the root, each
\* at the pc and the depth of its LOG step.
C16_Witness ==
    /\ pc = "derived"
    /\ Len(out) = 2
    /\ out[1].callPath # <<>> /\ out[2].callPath = <<>>
    /\ out[1].pc > 0
    /\ out[1].depth > out[2].depth

\* ---------------------------------------------------------------------------
(* Claims about enrichTraceWithCallAndEventDetails, under SpecEnrich.      *)

\* the first 10 characters of an input that holds a selector
SelectorOf(input) == SubSeq(input, 1, 10)

\* the method name the enricher is to give to a call with this input
ClaimedMethod(input) ==
    IF input = <<>> \/ Len(input[1]) < 10 THEN Unknown
    ELSE IF SelectorOf(input[1]) \in DOMAIN selectors
         THEN selectors[SelectorOf(input[1])]
         ELSE SelectorOf(input[1])

\* C17 (as claimed): once the enricher has returned, the method name of
\* every call node is the table's entry for the first 10 characters of its
\* input when the table has one, these 10 characters when it has none, and
\* "unknown" when the input is missing, empty or shorter than 10 characters.
C17_MethodIsEntryOrSelectorOrUnknown ==
    pc = "enriched" =>
        \A id \in DOMAIN callNodes :
            callNodes[id].method = <<ClaimedMethod(callNodes[id].input)>>

\* ---------------------------------------------------------------------------
(* More claims about deriveEventPathsRevertAware, under SpecDerive.        *)

\* step j follows a CALL/CREATE-family step and is deeper than it
EntersAfterCall(j) ==
    /\ j > 1
    /\ steps[j - 1].op \in ENTER
    /\ steps[j].depth > steps[j - 1].depth

\* the trace with the opcode of its last step replaced by one that reserves
\* nothing, emits nothing and marks nothing
WithoutLastReservation ==
    [j \in DOMAIN steps |->
        IF j = Len(steps) THEN [steps[j] EXCEPT !.op = "STOP"] ELSE steps[j]]

\* C18: a frame is pushed while step j is processed if and only if step
\* j - 1 is a CALL/CREATE-family step and step j is deeper than it; the path
\* of the pushed frame is the path of the frame that was on top when step
\* j - 1 was processed, followed by the index reserved at step j - 1; at most
\* one reservation is pending, and the one pending after a step is the one
\* this step made: the earlier one was resolved or discarded; a reservation
\* made by the last step creates no frame and changes no output.
C18_ReservationResolvedByNextStep ==
    /\ Len(pending) <= 1
    /\ \A j \in DOMAIN steps :
          /\ trail[j].pushed # <<>> <=> EntersAfterCall(j)
          /\ trail[j].pushed # <<>> =>
                trail[j].pushed[1] =
                    Append(trail[j - 1].top, trail[j - 1].reserved[1].reservedIdx)
          /\ trail[j].reserved # <<>> <=> steps[j].op \in ENTER
          /\ trail[j].reserved # <<>> =>
                /\ trail[j].reserved[1].parentIdx = Len(trail[j].top)
                /\ trail[j].reserved[1].reservedIdx =
                      Cardinality(EnterStepsIn(trail[j].top, j))
    /\ (pc = "derive" /\ steps # <<>>) => pending = trail[Len(steps)].reserved
    /\ pc = "derived" =>
          /\ pending = <<>>
          /\ (steps # <<>> /\ steps[Len(steps)].op \in ENTER) =>
                /\ \A k \in DOMAIN frames :
                      frames[k].path # ReservedPath(Len(steps))
                /\ out = deriveEventPathsRevertAware(WithoutLastReservation)

\* C18 witness: a run has returned in which one reservation was confirmed
\* by the next step, one was discarded by the next step, and the last step
\* made one; an event is in the output.
C18_Witness ==
    /\ pc = "derived"
    /\ steps # <<>>
    /\ steps[Len(steps)].op \in ENTER
    /\ \E j \in DOMAIN steps : trail[j].pushed # <<>>
    /\ \E j \in DOMAIN steps : ZeroStepCall(j)
    /\ out # <<>>

\* ---------------------------------------------------------------------------
\* a path without its last index
Parent(path) == SubSeq(path, 1, Len(path) - 1)

\* C19: for steps at depths >= 1, after the pop phase of a step at depth d
\* (and until the next step) the frame stack is not empty and holds at most
\* d frames; the root frame, with the empty path, is at the bottom and is
\* never popped; the frame at position k (the root at 0) has a path of
\* length k that extends the path of the frame below it by one index.
C19_FrameStackIsAChainFromTheRoot ==
    /\ frames # <<>>
    /\ frames[1].path = <<>>
    /\ steps # <<>> => Len(frames) <= steps[Len(steps)].depth
    /\ \A k \in DOMAIN frames :
          /\ Len(frames[k].path) = k - 1
          /\ k > 1 => Parent(frames[k].path) = frames[k - 1].path
    /\ \A j \in DOMAIN trail : ~PoppedAt(<<>>, j)

\* C19 witness: after a step at depth 2 the stack holds the root and its
\* second child, the first child having been popped by an earlier step.
C19_Witness ==
    /\ pc = "derive"
    /\ steps # <<>>
    /\ steps[Len(steps)].depth = 2
    /\ Len(frames) = 2
    /\ frames[2].path = <<1>>
    /\ \E j \in DOMAIN trail : PoppedAt(<<0>>, j)

\* ---------------------------------------------------------------------------
\* the steps that pushed a frame with the path P
PushSteps(P) == {j \in DOMAIN trail : trail[j].pushed = <<P>>}

\* The frame instance on top at step j: the step that created it, 0 for the
\* root frame (created before any step).
InstanceAt(j) ==
    IF trail[j].top = <<>> THEN 0
    ELSE Max({m \in PushSteps(trail[j].top) : m <= j})

\* C20: no two distinct frames created during one run, the root included,
\* have the same path: no path is pushed twice and no pushed path is empty;
\* so two finalized records have the same callPath only if they were
\* emitted in the same frame instance (the frame created by one step and
\* not popped between the two records).
C20_OnePathOneFrame ==
    /\ \A j \in DOMAIN trail :
          trail[j].pushed # <<>> =>
              /\ trail[j].pushed[1] # <<>>
              /\ PushSteps(trail[j].pushed[1]) = {j}
    /\ pc = "derived" =>
          \A m, n \in DOMAIN out :
              /\ out[m].callPath = trail[out[m].pc + 1].top
              /\ (m < n /\ out[m].callPath = out[n].callPath) =>
                    /\ InstanceAt(out[m].pc + 1) = InstanceAt(out[n].pc + 1)
                    /\ \A t \in (out[m].pc + 2)..(out[n].pc + 1) :
                          ~PoppedAt(out[m].callPath, t)

\* C20 witness: a run has returned two records with the same path, both
\* emitted in the one frame a step had pushed.
C20_Witness ==
    /\ pc = "derived"
    /\ \E m, n \in DOMAIN out :
          /\ m < n
          /\ out[m].callPath = out[n].callPath
          /\ out[m].callPath # <<>>
          /\ InstanceAt(out[m].pc + 1) > 0

\* ---------------------------------------------------------------------------
(* More claims about stitchLogsIntoCallTrace, under SpecStitch.            *)

\* the receipt logs the pairing rule gives to a node, in receipt order: the
\* logs n < min(E, L) whose event n has a path in the map, that of the node
LogsPairedWith(id) ==
    LET Mine(log) ==
            /\ log.logIndex < MinEL
            /\ Resolvable(log.logIndex)
            /\ pathMap[Join(sevents[log.logIndex + 1].callPath)] = id
    IN  SelectSeq(receipt, Mine)

\* the warning at position w is about a pair, or about a leftover log
AboutPairOrLeftover(w) ==
    \/ /\ warnings[w].kind \in {"nonode", "address"}
       /\ warnings[w].li \in 0..(MinEL - 1)
       /\ warnings[w].key = Join(sevents[warnings[w].li + 1].callPath)
    \/ /\ warnings[w].kind = "leftover"
       /\ warnings[w].li \in MinEL..(L - 1)

\* C21: for any E and L, exactly the pairs with index below min(E, L) are
\* processed, receipt log n with derived event n; log n is attached to the
\* node at the path of event n when that path is in the map, by the same
\* rule whether or not E = L; the events from index L on attach nothing and
\* have no warning of their own: every warning but the count mismatch is
\* about a pair below min(E, L) or about a leftover log.
C21_PairsBelowMinAttachedByPath ==
    /\ pc = "attach" => (i <= MinEL /\ i <= li)
    /\ Done =>
          /\ i = MinEL
          /\ li = L
          /\ \A id \in DOMAIN nodes : Attached(id) = LogsPairedWith(id)
          /\ \A w \in DOMAIN warnings :
                \/ w = 1 /\ warnings[w].kind = "count"
                \/ AboutPairOrLeftover(w)
          /\ \A n \in 0..(MinEL - 1) :
                Cardinality(WarningsAbout("nonode", n)) +
                Cardinality(WarningsAbout("address", n)) <= 1

\* C21 witness: more events than logs; every log is attached at the node of
\* the event of its index, and the surplus events left no warning.
C21_Witness ==
    /\ Done
    /\ E > L /\ L >= 2
    /\ \A n \in 0..(L - 1) : PlacesOf(n) # {} /\ Resolvable(n)
    /\ \E n \in L..(E - 1) : Resolvable(n)
    /\ Len(warnings) = 1

\* ---------------------------------------------------------------------------
(* A claim about deriveEventPathsRevertAware, under SpecDeriveEVM.         *)

\* the path A is a proper prefix of the path P: frame A is an ancestor of P
Ancestor(A, P) == Len(A) < Len(P) /\ SubSeq(P, 1, Len(A)) = A

\* frame P was popped by some step without having executed REVERT
PoppedUnreverted(P) ==
    \E t \in DOMAIN steps : PoppedAt(P, t) /\ ~RevertedBefore(P, t)

\* frame A executed REVERT after step j and was popped afterwards
RevertedAndPoppedAfter(A, j) ==
    \E r \in (j + 1)..Len(steps), u \in DOMAIN steps :
        /\ steps[r].op = "REVERT"
        /\ trail[r].top = A
        /\ r < u
        /\ PoppedAt(A, u)

\* C22: a record emitted directly in a frame that was popped without having
\* executed REVERT is not dropped and stays in the finalized output, also
\* when an ancestor of the frame later executes REVERT and is popped: a pop
\* of a reverted frame drops the records of that frame only, so a dropped
\* record is one whose own frame executed REVERT and was popped.
C22_NestedLogsSurviveAncestorRevert ==
    \A k \in DOMAIN events :
        /\ PoppedUnreverted(FrameOf(k)) =>
              /\ ~events[k].dropped
              /\ pc = "derived" => InOut(events[k].pc)
        /\ events[k].dropped =>
              \E j \in DOMAIN steps :
                  PoppedAt(FrameOf(k), j) /\ RevertedBefore(FrameOf(k), j)

\* C22 witness: a record of a nested frame, popped without REVERT, is in the
\* output although its parent executed REVERT afterwards and was popped.
C22_Witness ==
    /\ pc = "derived"
    /\ \E k \in DOMAIN events :
          /\ PoppedUnreverted(FrameOf(k))
          /\ InOut(events[k].pc)
          /\ \E u \in DOMAIN steps : \E n \in DOMAIN trail[u].popped :
                /\ Ancestor(trail[u].popped[n], FrameOf(k))
                /\ RevertedAndPoppedAfter(trail[u].popped[n], StepOf(k))

\* ---------------------------------------------------------------------------
\* The walk as a function of the inputs alone (the tree, the step trace, the
\* receipt), the mode left out: what it makes of the tree and the warnings
\* it collects.

\* the tree as it was supplied: no path, no attached list
Supplied == [id \in DOMAIN nodes |-> [nodes[id] EXCEPT !.logs = <<>>, !._path = <<>>]]

\* the leftover warnings of the logs from position n on
RECURSIVE LeftoverFrom(_)
LeftoverFrom(n) ==
    IF n < L THEN <<LeftoverWarning(n)>> \o LeftoverFrom(n + 1) ELSE <<>>

\* the pairs from position n on, then the leftover logs
RECURSIVE WalkFrom(_, _, _, _, _)
WalkFrom(ns, ws, evs, map, n) ==
    IF n < Len(evs) /\ n < L
    THEN LET key == Join(evs[n + 1].callPath)
         IN  IF key \notin DOMAIN map
             THEN WalkFrom(ns, Append(ws, MissingNodeWarning(key, n)), evs, map, n + 1)
             ELSE WalkFrom([ns EXCEPT ![map[key]].logs = <<Append(@[1], receipt[n + 1])>>],
                           ws \o AddressCheck(expectedLogAddressForNode(ns[map[key]]),
                                              receipt[n + 1], key, n),
                           evs, map, n + 1)
    ELSE [nodes |-> ns, warnings |-> ws \o LeftoverFrom(n)]

WalkOfInputs ==
    LET evs == deriveEventPathsRevertAware(structLogs)
        an  == annotateCallPaths(callsFromCallTracer, Supplied)
    IN  WalkFrom(InitLogs(an.nodes, an.pathMap), CountCheck(Len(evs), L),
                 evs, an.pathMap, 0)

\* C23: for the same inputs the walk runs to its end before the decision
\* to fail or to return, so the paths and the attached lists of every node
\* and the warning list are what the inputs alone determine, the same in
\* the default and in the lenient mode; when the default mode fails, the
\* supplied tree is mutated exactly as the lenient mode returns it, and the
\* error carries the warnings the lenient mode returns.
C23_WalkDoesNotDependOnMode ==
    Done =>
        /\ nodes = WalkOfInputs.nodes
        /\ warnings = WalkOfInputs.warnings
        /\ pc = "thrown" => result[1].lines = WalkOfInputs.warnings
        /\ pc = "returned" =>
              /\ result[1].warnings = WalkOfInputs.warnings
              /\ result[1].root = callsFromCallTracer

\* C23 witness: the default mode has failed on a count mismatch, the first
\* warning, and the tree holds the paths and a log attached after it.
C23_Witness ==
    /\ pc = "thrown"
    /\ ~suppressWarnings
    /\ warnings[1].kind = "count"
    /\ \E id \in DOMAIN nodes : Attached(id) # <<>> /\ nodes[id]._path # <<>>

====
